---- MODULE Spec2Model ----
(***************************************************************************)
(* ObservableProperty<int> and Animation<int> of src/main.cpp (the two     *)
(* older variants under src/unnamed share the same operator=, prep,        *)
(* get_progress and tick).                                                 *)
(*                                                                         *)
(* The property is one object (value, observers).  operator= is modelled   *)
(* step by step with a call stack, because observers run inside it and may *)
(* write the value (the animating observer of main) or assign again.       *)
(* One Animation object bound to the property is driven directly by the    *)
(* caller (prep / tick / finished / get_progress); the animating observer  *)
(* owns a second, local Animation.                                         *)
(*                                                                         *)
(* float is IEEE binary32: a progress is kept as sign * m / 2^k with       *)
(* 2^23 <= m < 2^24, so the narrowing cast of get_progress is computed,    *)
(* not assumed exact.                                                      *)
(***************************************************************************)
EXTENDS Integers, Sequences, FiniteSets, TLC

VARIABLES value, observers, stack, loc, anim, clock, notified, last

vars == <<value, observers, stack, loc, anim, clock, notified, last>>

----------------------------------------------------------------------------
(* Bounds *)

\* largest reading of the steady clock
MaxClock == 4
\* largest advance of the clock between two readings
MaxStep == 3
\* magnitude of the values assigned and animated
MaxVal == 3
\* most observers registered on the property
MaxObservers == 2
\* no new top-level assignment once this many observer calls were made
MaxNotified == 2
\* value of the nested assignment made by the reassigning observer
ReassignTo == 0

\* longest duration of the small animations
MaxDur == 3

\* anim.duration = 1000 of the int demo
DemoDuration == 1000

Values == {-MaxVal, 0, MaxVal}

\* negative, zero and positive durations (duration is a plain int64 field)
Durations == {-1, 0, MaxDur}

\* start = 0, end = 100, duration = 1000: the int animation of the demo
ExampleAnim == [start |-> 0, end |-> 100, duration |-> DemoDuration]

AnimConfigs ==
    { [start |-> s, end |-> e, duration |-> d] :
        s \in Values, e \in Values, d \in Durations } \cup {ExampleAnim}

\* timestamps a caller hands to tick / finished / get_progress
Times == (-1 .. MaxClock + 2) \cup {DemoDuration \div 2, DemoDuration + 200}

\* what an uninitialised start_time may hold
GarbageTimes == {0, MaxClock}

ObserverKinds == {"log", "animate", "reassign"}

----------------------------------------------------------------------------
(* IEEE binary32 values: zero, +-m/2^k with 2^23 <= m < 2^24, +-inf, nan *)

Pow23 == 8388608
Pow24 == 16777216

FZero == [cls |-> "zero", s |-> 0, m |-> 0, k |-> 0]
FOne  == [cls |-> "fin", s |-> 1, m |-> Pow23, k |-> 23]
FInf(sg) == [cls |-> "inf", s |-> sg, m |-> 0, k |-> 0]
FNaN == [cls |-> "nan", s |-> 0, m |-> 0, k |-> 0]

Sign(x) == IF x > 0 THEN 1 ELSE IF x < 0 THEN -1 ELSE 0
Abs(x) == IF x < 0 THEN -x ELSE x

\* scale p/q into [1, 2): <<p', q', e>> with p/q = (p'/q') * 2^e, q' <= p' < 2q'
RECURSIVE Normalize(_, _, _)
Normalize(p, q, e) ==
    IF p < q THEN Normalize(2 * p, q, e - 1)
    ELSE IF p >= 2 * q THEN Normalize(p, 2 * q, e + 1)
    ELSE <<p, q, e>>

\* n more quotient bits of r/q by long division: <<mantissa, remainder>>
RECURSIVE Mantissa(_, _, _, _)
Mantissa(r, q, m, n) ==
    IF n = 0 THEN <<m, r>>
    ELSE IF 2 * r >= q THEN Mantissa(2 * r - q, q, 2 * m + 1, n - 1)
         ELSE Mantissa(2 * r, q, 2 * m, n - 1)

\* round to nearest, ties to even, on the 24-bit mantissa
RoundNearestEven(m, r, q) ==
    IF 2 * r > q \/ (2 * r = q /\ m % 2 = 1) THEN m + 1 ELSE m

\* (float)((double)delta / (double)duration).  The double quotient keeps 29
\* bits more than the float, so for |duration| < 2^29 rounding twice equals
\* rounding once.  Division by zero is IEEE: +-inf, and nan for 0/0.
FloatDiv(delta, duration) ==
    IF duration = 0
    THEN IF delta = 0 THEN FNaN ELSE FInf(Sign(delta))
    ELSE IF delta = 0 THEN FZero
    ELSE LET n  == Normalize(Abs(delta), Abs(duration), 0)
             mr == Mantissa(n[1] - n[2], n[2], 1, 23)
             m  == RoundNearestEven(mr[1], mr[2], n[2])
             sg == Sign(delta) * Sign(duration)
         IN  IF m = Pow24
             THEN [cls |-> "fin", s |-> sg, m |-> Pow23, k |-> 23 - (n[3] + 1)]
             ELSE [cls |-> "fin", s |-> sg, m |-> m, k |-> 23 - n[3]]

\* f > 1
FGtOne(f) ==
    \/ f.cls = "inf" /\ f.s = 1
    \/ f.cls = "fin" /\ f.s = 1 /\ (f.k < 23 \/ (f.k = 23 /\ f.m > Pow23))

\* f >= 1.0
FGeOne(f) ==
    \/ f.cls = "inf" /\ f.s = 1
    \/ f.cls = "fin" /\ f.s = 1 /\ f.k <= 23

\* f < 0
FLtZero(f) == f.cls \in {"inf", "fin"} /\ f.s = -1

\* magnitude order of two positive finite floats
MagLeq(f, g) == f.k > g.k \/ (f.k = g.k /\ f.m <= g.m)

\* f <= g (false when either is nan)
FLeq(f, g) ==
    /\ f.cls # "nan" /\ g.cls # "nan"
    /\ \/ f.s < g.s
       \/ /\ f.s = g.s
          /\ \/ f.s = 0
             \/ f.s = 1 /\ (g.cls = "inf" \/ (f.cls = "fin" /\ MagLeq(f, g)))
             \/ f.s = -1 /\ (f.cls = "inf" \/ (g.cls = "fin" /\ MagLeq(g, f)))

RECURSIVE ShiftRight(_, _)
ShiftRight(x, k) == IF k = 0 THEN x ELSE ShiftRight(x \div 2, k - 1)

\* some of the k low bits of x is set
RECURSIVE LowBits(_, _)
LowBits(x, k) == k > 0 /\ (x % 2 = 1 \/ LowBits(x \div 2, k - 1))

----------------------------------------------------------------------------
(* lerp<int> and Animation<int> *)

\* trunc(st + sg * x / 2^k) for x >= 0: the conversion of the double sum to
\* int drops the fraction, whatever the sign of the sum
TruncSum(st, sg, x, k) ==
    LET whole == ShiftRight(x, k)
        frac  == LowBits(x, k)
    IN  IF sg >= 0
        THEN IF st + whole < 0 /\ frac THEN st + whole + 1 ELSE st + whole
        ELSE IF st - whole > 0 /\ frac THEN st - whole - 1 ELSE st - whole

\* lerp with start and end taken in the other order
lerp_FromEnd(st, en, prog) ==
    IF prog.cls = "zero" THEN en
    ELSE TruncSum(en, prog.s * Sign(st - en), prog.m * Abs(st - en), prog.k)

\* lerp<int>(start, end, prog): (T)start + (prog * (end - start)), the double
\* sum converted to int on return.  prog is the float widened to double; with
\* |end - start| < 2^7 and prog >= 2^-22 the product and the sum are exact
\* doubles.  Only finite prog is passed by tick.
lerp(st, en, prog) ==
    IF prog.cls = "zero" THEN st
    ELSE TruncSum(st, prog.s * Sign(en - st), prog.m * Abs(en - st), prog.k)

\* get_progress with the delta == 0 short-circuit returning 1.0f
get_progress_ShortCircuitOne(a, now) ==
    LET delta == now - a.start_time
    IN  IF delta = 0 THEN FOne ELSE FloatDiv(delta, a.duration)

\* get_progress without the delta == 0 short-circuit: the division is made
get_progress_NoShortCircuit(a, now) ==
    FloatDiv(now - a.start_time, a.duration)

\* get_progress with the operands of the subtraction swapped
get_progress_Reversed(a, now) ==
    LET delta == a.start_time - now
    IN  IF delta = 0 THEN FZero ELSE FloatDiv(delta, a.duration)

\* float get_progress(int64_t now) of animation a
get_progress(a, now) ==
    LET delta == now - a.start_time
    IN  IF delta = 0 THEN FZero ELSE FloatDiv(delta, a.duration)

get_value_for_progress(a, prog) == lerp(a.start, a.end, prog)

\* tick with the two clamping branches left out
TickValue_NoClamp(a, now) ==
    LET prog == get_progress(a, now)
    IN  IF prog.cls = "fin" THEN get_value_for_progress(a, prog) ELSE a.start

\* tick with the first branch storing start instead of end
TickValue_ClampToStart(a, now) ==
    LET prog == get_progress(a, now)
    IN  IF FGtOne(prog) \/ FLtZero(prog) THEN a.start
        ELSE get_value_for_progress(a, prog)

\* the value tick(now) stores in property->value
TickValue(a, now) ==
    LET prog == get_progress(a, now)
    IN  IF FGtOne(prog) THEN a.end
        ELSE IF FLtZero(prog) THEN a.start
        ELSE get_value_for_progress(a, prog)

finished(a, now) == FGeOne(get_progress(a, now))

----------------------------------------------------------------------------
(* The steady clock *)

\* readings AnimationCore::now() may return next: the clock never goes back
ClockReadings == { c \in clock .. clock + MaxStep : c <= MaxClock }

----------------------------------------------------------------------------
(* ObservableProperty<int> *)

\* the observer put in front of the list
push_front(obs, o) == <<o>> \o obs

\* observers.push_back(observer); reg is the observer's registration number
push_back(obs, o) == Append(obs, o)

\* the write routed through operator=, which calls every observer
NotifyingWrite(v) ==
    value' = v /\ notified' = notified + Len(observers) /\ UNCHANGED observers

\* this->property->value = v: the field is written, operator= is not called
DirectWrite(v) == value' = v /\ UNCHANGED <<observers, notified>>

NoAnim == [start |-> 0, end |-> 0, duration |-> 0, start_time |-> 0, now |-> 0]

NoFrame == [new_value |-> 0, i |-> 0, pc |-> "none", entry |-> 0, args |-> <<>>]

\* the call made last: its argument (now or prog), and what it returned
NoCall ==
    [op |-> "none", now |-> 0, frame |-> NoFrame, prog |-> FZero, ret |-> 0]

Top == stack[Len(stack)]

SetTop(f) == [stack EXCEPT ![Len(stack)] = f]

\* the frame after observer i has returned: the range-for moves on
NextObserver(f) == [f EXCEPT !.i = f.i + 1, !.pc = "call"]

\* the frame with the call observer(this->value, new_value) recorded
Invoked(f) ==
    [f EXCEPT !.pc = "run",
              !.args = Append(f.args, [reg |-> observers[f.i].reg,
                                       old |-> value, new |-> f.new_value])]

\* add_observer(observer), between assignments
AddObserver(kind) ==
    /\ stack = <<>>
    /\ Len(observers) < MaxObservers
    /\ observers' = push_back(observers, [kind |-> kind, reg |-> Len(observers) + 1])
    /\ last' = [NoCall EXCEPT !.op = "add_observer"]
    /\ UNCHANGED <<value, stack, loc, anim, clock, notified>>

\* operator=(v) is entered by the caller
Assign(v) ==
    /\ stack = <<>>
    /\ notified < MaxNotified
    /\ stack' = <<[new_value |-> v, i |-> 1, pc |-> "call", entry |-> value,
                   args |-> <<>>]>>
    /\ last' = [NoCall EXCEPT !.op = "enter"]
    /\ UNCHANGED <<value, observers, loc, anim, clock, notified>>

\* the loop of operator= calls a logging observer (the lambdas of View())
NotifyLog ==
    /\ stack # <<>> /\ Top.pc = "call" /\ Top.i <= Len(observers)
    /\ observers[Top.i].kind = "log"
    /\ stack' = SetTop(NextObserver(Invoked(Top)))
    /\ notified' = notified + 1
    /\ last' = [NoCall EXCEPT !.op = "notify"]
    /\ UNCHANGED <<value, observers, loc, anim, clock>>

\* the loop calls the animating observer of main: it builds an Animation from
\* (old, current), calls prep() and reads the clock once more
NotifyAnimate(d, t0, t1) ==
    /\ stack # <<>> /\ Top.pc = "call" /\ Top.i <= Len(observers)
    /\ observers[Top.i].kind = "animate"
    /\ t0 \in ClockReadings
    /\ t1 \in t0 .. t0 + MaxStep /\ t1 <= MaxClock
    /\ stack' = SetTop(Invoked(Top))
    /\ loc' = [start |-> value, end |-> Top.new_value, duration |-> d,
               start_time |-> t0, now |-> t1]
    /\ clock' = t1
    /\ notified' = notified + 1
    /\ last' = [NoCall EXCEPT !.op = "notify"]
    /\ UNCHANGED <<value, observers, anim>>

\* while (!anim.finished(now)) { now = AnimationCore::now(); anim.tick(now); }
LoopTick(t) ==
    /\ stack # <<>> /\ Top.pc = "run" /\ observers[Top.i].kind = "animate"
    /\ ~finished(loc, loc.now)
    /\ t \in ClockReadings
    /\ clock' = t
    /\ loc' = [loc EXCEPT !.now = t]
    /\ DirectWrite(TickValue(loc, t))
    /\ last' = [NoCall EXCEPT !.op = "loop_tick", !.now = t]
    /\ UNCHANGED <<stack, anim>>

\* the loop condition fails and the animating observer returns
LoopExit ==
    /\ stack # <<>> /\ Top.pc = "run" /\ observers[Top.i].kind = "animate"
    /\ finished(loc, loc.now)
    /\ stack' = SetTop(NextObserver(Top))
    /\ loc' = NoAnim
    /\ last' = [NoCall EXCEPT !.op = "loop_exit", !.now = loc.now]
    /\ UNCHANGED <<value, observers, anim, clock, notified>>

\* the loop calls an observer that assigns ReassignTo to the same property
\* unless that is the value being set: a nested operator= is entered
NotifyReassign ==
    /\ stack # <<>> /\ Top.pc = "call" /\ Top.i <= Len(observers)
    /\ observers[Top.i].kind = "reassign"
    /\ stack' = IF Top.new_value = ReassignTo
                THEN SetTop(NextObserver(Invoked(Top)))
                ELSE Append(SetTop(Invoked(Top)),
                            [new_value |-> ReassignTo, i |-> 1, pc |-> "call",
                             entry |-> value, args |-> <<>>])
    /\ notified' = notified + 1
    /\ last' = [NoCall EXCEPT !.op = "notify"]
    /\ UNCHANGED <<value, observers, loc, anim, clock>>

\* the stack once the top call has returned: its caller, the reassigning
\* observer of the frame below, returns too
Return(st) ==
    LET rest == SubSeq(st, 1, Len(st) - 1)
    IN  IF rest = <<>> THEN rest
        ELSE [rest EXCEPT ![Len(rest)] = NextObserver(rest[Len(rest)])]

\* operator= without its final store: the value the observers left stays
Committed_NoStore(f) == value

\* the value operator= leaves in the property after the loop
Committed(f) == f.new_value

\* this->value = new_value, after the last observer; operator= returns
Commit ==
    /\ stack # <<>> /\ Top.pc = "call" /\ Top.i > Len(observers)
    /\ value' = Committed(Top)
    /\ stack' = Return(stack)
    /\ last' = [NoCall EXCEPT !.op = "assign", !.frame = Top]
    /\ UNCHANGED <<observers, loc, anim, clock, notified>>

----------------------------------------------------------------------------
(* The Animation<int> the caller drives itself; anim.property is the property *)

\* prep(): start_time = AnimationCore::now()
Prep(t) ==
    /\ stack = <<>>
    /\ t \in ClockReadings
    /\ clock' = t
    /\ anim' = [anim EXCEPT !.start_time = t, !.prepared = TRUE]
    /\ last' = [NoCall EXCEPT !.op = "prep", !.now = t]
    /\ UNCHANGED <<value, observers, stack, loc, notified>>

\* a tick that also moves the start time to the time it is given
Tick_Recapture(now) ==
    /\ stack = <<>>
    /\ DirectWrite(TickValue(anim, now))
    /\ anim' = [anim EXCEPT !.start_time = now]
    /\ last' = [NoCall EXCEPT !.op = "tick", !.now = now]
    /\ UNCHANGED <<stack, loc, clock>>

\* tick(now)
Tick(now) ==
    /\ stack = <<>>
    /\ DirectWrite(TickValue(anim, now))
    /\ last' = [NoCall EXCEPT !.op = "tick", !.now = now]
    /\ UNCHANGED <<stack, loc, anim, clock>>

\* finished(now) and get_progress(now): nothing but the result
Query(now) ==
    /\ stack = <<>>
    /\ last' = [NoCall EXCEPT !.op = "query", !.now = now]
    /\ UNCHANGED <<value, observers, stack, loc, anim, clock, notified>>

\* progress values a caller hands to get_value_for_progress: 0.0, 0.5, 1.0
ProgressInputs == {FZero, FloatDiv(1, 2), FOne}

\* get_value_for_progress(prog)
GetValue(prog) ==
    /\ stack = <<>>
    /\ last' = [NoCall EXCEPT !.op = "value", !.prog = prog,
                              !.ret = get_value_for_progress(anim, prog)]
    /\ UNCHANGED <<value, observers, stack, loc, anim, clock, notified>>

----------------------------------------------------------------------------

\* an Animation object nobody has set up yet
IdleAnim ==
    [start |-> 0, end |-> 0, duration |-> 0, start_time |-> 0, prepared |-> FALSE]

\* the property right after construction, holding some int (View() gives it
\* no initialiser), with no observer yet
Init ==
    /\ value \in Values
    /\ observers = <<>>
    /\ stack = <<>>
    /\ loc = NoAnim
    /\ anim = IdleAnim
    /\ clock = 0
    /\ notified = 0
    /\ last = NoCall

\* assignments to a property with observers: operator= and the driving loop
\* inside the animating observer
Next ==
    \/ \E k \in ObserverKinds : AddObserver(k)
    \/ \E v \in Values : Assign(v)
    \/ NotifyLog
    \/ \E d \in Durations, t0 \in 0 .. MaxClock, t1 \in 0 .. MaxClock :
          NotifyAnimate(d, t0, t1)
    \/ \E t \in 0 .. MaxClock : LoopTick(t)
    \/ LoopExit
    \/ NotifyReassign
    \/ Commit

Spec == Init /\ [][Next]_vars

\* a property with the logging observer of View() and an Animation whose
\* public fields the caller has set; start_time is private and holds whatever
\* the memory held until prep() runs
InitAnim ==
    /\ value \in Values
    /\ observers = <<[kind |-> "log", reg |-> 1]>>
    /\ stack = <<>>
    /\ loc = NoAnim
    /\ \E c \in AnimConfigs, g \in GarbageTimes :
          anim = [start |-> c.start, end |-> c.end, duration |-> c.duration,
                  start_time |-> g, prepared |-> FALSE]
    /\ clock = 0
    /\ notified = 0
    /\ last = NoCall

\* the caller drives the Animation itself, in any order, and may assign
NextAnim ==
    \/ \E t \in 0 .. MaxClock : Prep(t)
    \/ \E now \in Times : Tick(now)
    \/ \E now \in Times : Query(now)
    \/ \E prog \in ProgressInputs : GetValue(prog)
    \/ \E v \in Values : Assign(v)
    \/ NotifyLog
    \/ Commit

SpecAnim == InitAnim /\ [][NextAnim]_vars

\* the animating observer is inside its driving loop
Looping ==
    stack # <<>> /\ Top.pc = "run" /\ observers[Top.i].kind = "animate"

\* an iteration of the driving loop that reads a later time than the last
\* reading: the steady clock moves on while the loop spins
AdvancingTick == \E t \in 0 .. MaxClock : LoopTick(t) /\ t > clock

\* ENABLED <<AdvancingTick>>_vars: the loop condition holds and the clock has
\* a later reading left
CanAdvance == Looping /\ ~finished(loc, loc.now) /\ clock < MaxClock

\* ENABLED <<LoopExit>>_vars: the loop condition fails
CanExit == Looping /\ finished(loc, loc.now)

\* weak fairness of AdvancingTick and of LoopExit, with the guards above for
\* their enabling conditions: the loop body and the loop exit are straight-line
\* code whose only wait is a bounded sleep
LoopFairness ==
    /\ \/ []<>(~CanAdvance)
       \/ []<><<last'.op = "loop_tick" /\ clock' > clock>>_vars
    /\ \/ []<>(~CanExit)
       \/ []<><<last'.op = "loop_exit">>_vars

\* main is one thread that is never suspended for good: the loop keeps
\* iterating and the clock keeps advancing, and code that can return does return
SpecLive ==
    /\ Init /\ [][Next]_vars
    /\ LoopFairness
    /\ WF_vars(NotifyLog)
    /\ WF_vars(Commit)

----------------------------------------------------------------------------
(* Claims *)

\* the calls of operator= in progress, and the one that returned last
Frames == {stack[j] : j \in 1 .. Len(stack)}

\* the registration numbers of the observers a call has invoked, in order
Regs(f) == [j \in 1 .. Len(f.args) |-> f.args[j].reg]

\* C1: every observer invoked by operator=(newValue) receives (oldValue,
\* newValue) with oldValue the value the property held when operator= was
\* called and newValue the argument of the call.
C1_ObserverGetsEntryValue ==
    \A f \in Frames \cup {last.frame} :
        \A j \in 1 .. Len(f.args) :
            f.args[j].old = f.entry /\ f.args[j].new = f.new_value

\* C2: a call of operator= invokes the observers registered before it one
\* after the other in registration order, each exactly once, and has invoked
\* all of them when it returns (also when the new value equals the old one).
C2_ObserversOnceInOrder ==
    /\ \A f \in Frames :
          Regs(f) = [j \in 1 .. (IF f.pc = "call" THEN f.i - 1 ELSE f.i) |-> j]
    /\ last.op = "assign" =>
          Regs(last.frame) = [j \in 1 .. Len(observers) |-> j]

\* C2 witness: an assignment of the value the property already held has
\* returned with two observers registered
C2_Witness ==
    /\ last.op = "assign"
    /\ Len(observers) = 2
    /\ last.frame.entry = last.frame.new_value

\* C3: when operator=(newValue) returns the property holds newValue, whatever
\* the observers wrote meanwhile, and the store came after the last observer.
C3_ValueIsNewValueOnReturn ==
    last.op = "assign" =>
        /\ value = last.frame.new_value
        /\ last.frame.i = Len(observers) + 1
        /\ Len(last.frame.args) = Len(observers)

\* C3 witness: a call has returned during which an observer saw a value other
\* than the one at entry and other than the new one (a tick or a nested
\* assignment had written the property)
C3_Witness ==
    /\ last.op = "assign"
    /\ \E j \in 1 .. Len(last.frame.args) :
          /\ last.frame.args[j].old # last.frame.entry
          /\ last.frame.args[j].old # last.frame.new_value

C5_TickClamps ==
    (last.op = "tick" /\ anim.prepared) =>
        /\ FGtOne(get_progress(anim, last.now)) => value = anim.end
        /\ FLtZero(get_progress(anim, last.now)) => value = anim.start

\* C5 witness: a tick past the end of a prepared animation with start # end
C5_Witness ==
    /\ last.op = "tick" /\ anim.prepared
    /\ anim.duration > 0 /\ anim.start # anim.end
    /\ FGtOne(get_progress(anim, last.now))
    /\ value = anim.end

\* C6: with duration = 0, a tick at the captured start time leaves the
\* property equal to end.
C6_ZeroDurationTickGivesEnd ==
    (/\ last.op = "tick" /\ anim.prepared
     /\ anim.duration = 0 /\ last.now = anim.start_time) => value = anim.end

\* C7: with duration <= 0, finished(now) is true for every now >= start time
\* once prep has run.
C7_NonPositiveDurationIsFinished ==
    (anim.prepared /\ anim.duration <= 0) =>
        \A now \in Times : now >= anim.start_time => finished(anim, now)

\* C8: a tick on an Animation that was never prepared does not write the
\* property's value.
C8_TickBeforePrepWritesNothing ==
    [][(~anim.prepared /\ last'.op = "tick") => value' = value]_vars

\* start + (delta / duration) * (end - start) over the rationals, truncated
\* toward zero
ExactLerp(st, en, delta, dur) ==
    LET num == st * dur + delta * (en - st)
    IN  Sign(num) * (Abs(num) \div dur)

\* C9: for duration > 0 and 0 <= now - startTime <= duration, tick(now) stores
\* start + ((now - startTime) / duration) * (end - start) truncated toward
\* zero.
C9_TickStoresTruncatedLerp ==
    (/\ last.op = "tick" /\ anim.prepared /\ anim.duration > 0
     /\ last.now - anim.start_time \in 0 .. anim.duration) =>
        value = ExactLerp(anim.start, anim.end, last.now - anim.start_time,
                          anim.duration)

\* C10: for a fixed start time and duration > 0, get_progress(t1) <=
\* get_progress(t2) whenever t1 <= t2, below, at and above the start time
\* (the timestamp just asked for against every other one).
C10_ProgressMonotone ==
    (last.op = "query" /\ anim.prepared /\ anim.duration > 0) =>
        LET asked == get_progress(anim, last.now)
        IN  \A t \in Times :
                /\ t <= last.now => FLeq(get_progress(anim, t), asked)
                /\ last.now <= t => FLeq(asked, get_progress(anim, t))

\* C10 witness: get_progress was asked below the start time of a prepared
\* animation of positive duration, with a later timestamp above it
C10_Witness ==
    /\ last.op = "query" /\ anim.prepared /\ anim.duration > 0
    /\ last.now < anim.start_time
    /\ \E t \in Times : t > anim.start_time

\* C11: get_progress(now) returns a value in the range 0.0 to 1.0 inclusive,
\* for every now, as its documentation comment says.
C11_ProgressInUnitRange ==
    (last.op = "query" /\ anim.prepared) =>
        /\ FLeq(FZero, get_progress(anim, last.now))
        /\ FLeq(get_progress(anim, last.now), FOne)

\* C13: after prep, get_progress(startTime) is exactly 0.0 whatever the
\* duration (zero and negative included): the division is not made.
C13_ZeroDeltaIsZero ==
    (last.op = "query" /\ anim.prepared /\ last.now = anim.start_time) =>
        get_progress(anim, last.now) = FZero

\* C13 witness: get_progress was asked at the start time of a prepared
\* animation of duration 0
C13_Witness ==
    /\ last.op = "query" /\ anim.prepared
    /\ last.now = anim.start_time
    /\ anim.duration = 0

\* C12: get_value_for_progress(0.0) is start and get_value_for_progress(1.0)
\* is end, exactly, for every start and end.
C12_EndpointsExact ==
    last.op = "value" =>
        /\ last.prog = FZero => last.ret = anim.start
        /\ last.prog = FOne => last.ret = anim.end

\* C12 witness: get_value_for_progress(1.0) was called on an animation from a
\* negative start to a positive end
C12_Witness ==
    /\ last.op = "value" /\ last.prog = FOne
    /\ anim.start < 0 /\ anim.end > 0
    /\ last.ret = anim.end

C15_LoopTerminates ==
    /\ (Looping /\ loc.duration > 0 /\ loc.start_time + loc.duration <= MaxClock)
          ~> (last.op = "loop_exit")
    /\ (/\ Looping /\ loc.duration > 0
        /\ loc.start_time + loc.duration <= MaxClock
        /\ Len(stack) = 1
        /\ \A j \in Top.i + 1 .. Len(observers) : observers[j].kind = "log")
          ~> (last.op = "assign" /\ stack = <<>>)

\* C15 witness: the loop of an animation of positive duration has ticked at a
\* time that ends it, and its condition now lets it exit
C15_Witness ==
    /\ Looping /\ loc.duration > 0
    /\ last.op = "loop_tick"
    /\ loc.now >= loc.start_time + loc.duration
    /\ finished(loc, loc.now)

\* C16: whenever the driving loop exits, with duration > 0 and clock readings
\* that never go back, the property's value equals the animation's end at
\* that moment, before operator= stores new_value.
C16_ExitLeavesEnd ==
    [][(Looping /\ loc.duration > 0 /\ last'.op = "loop_exit")
          => value' = loc.end]_vars

\* C17: tick, get_progress, get_value_for_progress and finished leave the
\* animation's start_time, start, end and duration and the observer list as
\* they were; tick changes nothing but the property's value; the start time
\* changes only in prep, and every prep sets it to the clock's reading.
C17_FrameEffects ==
    [][/\ last'.op \in {"tick", "query", "value"}
             => anim' = anim /\ observers' = observers
       /\ last'.op \in {"query", "value"} => value' = value
       /\ last'.op = "tick" => UNCHANGED <<observers, notified, anim, clock>>
       /\ anim'.start_time # anim.start_time => last'.op = "prep"
       /\ last'.op = "prep"
             => /\ anim'.start_time = clock'
                /\ anim'.start = anim.start /\ anim'.end = anim.end
                /\ anim'.duration = anim.duration]_vars

\* a tick after a prep that captured a later clock reading wrote a value
\* strictly between the endpoints
C17_Witness ==
    /\ last.op = "tick" /\ anim.prepared /\ anim.start_time > 0
    /\ last.now > anim.start_time
    /\ value # anim.start /\ value # anim.end

\* C18: after prep with duration > 0, the value tick(now) writes lies between
\* min(start, end) and max(start, end) inclusive, for now before, at or after
\* the start time and for endpoints of any sign.
C18_TickWithinEndpoints ==
    (last.op = "tick" /\ anim.prepared /\ anim.duration > 0)
       => \/ anim.start <= value /\ value <= anim.end
          \/ anim.end <= value /\ value <= anim.start

\* a tick wrote a negative value strictly inside endpoints of opposite signs
C18_Witness ==
    /\ last.op = "tick" /\ anim.prepared /\ anim.duration > 0
    /\ anim.start > 0 /\ anim.end < 0
    /\ anim.end < value /\ value < 0

\* C19: after prep with duration > 0, the value tick writes moves toward end
\* as now grows: for start <= end it is non-decreasing in now, for
\* start >= end non-increasing.  Stated for the value a tick stored against
\* what tick stores for every earlier and every later timestamp.
C19_TickMonotone ==
    (last.op = "tick" /\ anim.prepared /\ anim.duration > 0)
       => \A t \in Times :
             LET other == TickValue(anim, t)
                 lo    == IF t <= last.now THEN other ELSE value
                 hi    == IF t <= last.now THEN value ELSE other
             IN  /\ anim.start <= anim.end => lo <= hi
                 /\ anim.start >= anim.end => lo >= hi

\* a tick of a decreasing animation stored a value strictly below that of an
\* earlier timestamp and strictly above that of a later one
C19_Witness ==
    /\ last.op = "tick" /\ anim.prepared /\ anim.duration > 0
    /\ anim.start > anim.end
    /\ \E t1, t2 \in Times :
          /\ t1 < last.now /\ last.now < t2
          /\ TickValue(anim, t1) > value /\ value > TickValue(anim, t2)

====
